---- MODULE Spec2Model ----
(***************************************************************************)
(* Windows dark-mode negotiation of src/platform_impl/windows/dark_mode.rs *)
(* as a state machine.                                                     *)
(*                                                                         *)
(* State: the Lazy statics of the module (lazy), the facts of the host OS  *)
(* the lazy initializers read (os), the OS-side per-window "dark mode      *)
(* allowed" flag (allowed) and a record of the last public call (last):    *)
(* its arguments, the ambient settings in force at each evaluation, the    *)
(* OS calls it made, in order, and its result.                             *)
(*                                                                         *)
(* Spec      : the public functions try_app_theme / try_window_theme, one  *)
(*             action per call, called one after the other.                *)
(* LazySpec  : several threads racing on the first access of the Lazy      *)
(*             statics, one action per step of once_cell's Lazy::force.    *)
(***************************************************************************)
EXTENDS Integers, Sequences, FiniteSets, TLC

VARIABLES os, lazy, allowed, last, stack, runs, seen

vars == <<os, lazy, allowed, last, stack, runs, seen>>

(***************************************************************************)
(* Bounds and sample sets                                                  *)
(***************************************************************************)
NumWindows == 1
NumThreads == 2

Windows == 1..NumWindows
Threads == 1..NumThreads

\* NTSTATUS values RtlGetVersion may return (i32): a failure and success.
StatusSamples == {-1, 0}
MajorSamples == {6, 10, 11}
MinorSamples == {0, 1}
\* dwBuildNumber around the two thresholds of the module.
BuildSamples == {17762, 17763, 18361, 18362}
\* HIGHCONTRASTA.dwFlags of the system: HCF_AVAILABLE alone (high contrast off)
\* and HCF_AVAILABLE | HCF_HIGHCONTRASTON (high contrast on).
HcFlagSamples == {2, 3}
\* Addresses of the local is_dark_mode_bigbool; a reference is never null.
StackAddrs == {4096, 8192}

(***************************************************************************)
(* Values                                                                  *)
(***************************************************************************)
Light == "Light"
Dark == "Dark"
Theme == {Light, Dark}

None == [tag |-> "None"]
Some(v) == [tag |-> "Some", v |-> v]
IsSome(o) == o.tag = "Some"
\* A Lazy cell whose initializer has not completed, and one whose initializer
\* is running (once_cell's INCOMPLETE and RUNNING states).
Uninit == [tag |-> "Uninit"]
Running == [tag |-> "Running"]
Done(v) == [tag |-> "Done", v |-> v]
IsDone(c) == c.tag = "Done"

OptTheme == {None, Some(Light), Some(Dark)}

\* uxtheme.dll ordinals
UXTHEME_REFRESHIMMERSIVECOLORPOLICYSTATE_ORDINAL == 104
UXTHEME_SHOULDAPPSUSEDARKMODE_ORDINAL == 132
UXTHEME_ALLOWDARKMODEFORWINDOW_ORDINAL == 133
UXTHEME_ALLOWDARKMODEFORAPP_ORDINAL == 135
UXTHEME_SETPREFERREDAPPMODE_ORDINAL == 135
UXTHEME_ISDARKMODEALLOWEDFORWINDOW_ORDINAL == 137
Ordinals == {104, 132, 133, 135, 137}

WCA_USEDARKMODECOLORS == 26
HCF_HIGHCONTRASTON == 1

\* The Lazy statics, by their names in the source.
UxCells == {"ALLOW_DARK_MODE_FOR_APP", "SET_PREFERRED_APP_MODE",
            "REFRESH_IMMERSIVE_COLOR_POLICY_STATE", "ALLOW_DARK_MODE_FOR_WINDOW",
            "IS_DARK_MODE_ALLOWED_FOR_WINDOW", "SHOULD_APPS_USE_DARK_MODE"}
Cells == UxCells \cup {"HUXTHEME", "WIN10_BUILD_VERSION", "DARK_MODE_SUPPORTED",
                       "SET_WINDOW_COMPOSITION_ATTRIBUTE"}

OrdinalOf(c) ==
  CASE c = "ALLOW_DARK_MODE_FOR_APP" -> UXTHEME_ALLOWDARKMODEFORAPP_ORDINAL
    [] c = "SET_PREFERRED_APP_MODE" -> UXTHEME_SETPREFERREDAPPMODE_ORDINAL
    [] c = "REFRESH_IMMERSIVE_COLOR_POLICY_STATE" -> UXTHEME_REFRESHIMMERSIVECOLORPOLICYSTATE_ORDINAL
    [] c = "ALLOW_DARK_MODE_FOR_WINDOW" -> UXTHEME_ALLOWDARKMODEFORWINDOW_ORDINAL
    [] c = "IS_DARK_MODE_ALLOWED_FOR_WINDOW" -> UXTHEME_ISDARKMODEALLOWEDFORWINDOW_ORDINAL
    [] c = "SHOULD_APPS_USE_DARK_MODE" -> UXTHEME_SHOULDAPPSUSEDARKMODE_ORDINAL

(***************************************************************************)
(* The host OS as the lazy initializers see it.                            *)
(*   rtl     : get_function!("ntdll.dll", RtlGetVersion) resolves          *)
(*   status, major, minor, build : what RtlGetVersion reports              *)
(*   ux      : LoadLibraryA("uxtheme.dll") succeeds                        *)
(*   exports : the ordinals GetProcAddress finds in uxtheme.dll            *)
(*   swca    : get_function!("user32.dll", SetWindowCompositionAttribute)  *)
(*             resolves                                                    *)
(***************************************************************************)
OsFacts ==
  { o \in [rtl : BOOLEAN, status : StatusSamples, major : MajorSamples,
           minor : MinorSamples, build : BuildSamples, ux : BOOLEAN,
           exports : SUBSET Ordinals, swca : BOOLEAN] :
      \* a library that did not load exports nothing
      (~o.ux) => o.exports = {} }

\* HMODULE: 0 is the invalid (default) handle, 1 stands for a loaded module.
HMODULE_default == 0
is_invalid(h) == h = 0

\* LoadLibraryA(s!("uxtheme.dll")).unwrap_or_default()
HUXTHEME_init(o) == IF o.ux THEN 1 ELSE HMODULE_default

\* A probe that does not look at the minor version.
WIN10_BUILD_VERSION_init_any_minor(o) ==
  IF o.rtl
    THEN IF o.status >= 0 /\ o.major = 10 THEN Some(o.build) ELSE None
    ELSE None

\* The closure of WIN10_BUILD_VERSION.
WIN10_BUILD_VERSION_init(o) ==
  IF o.rtl
    THEN IF o.status >= 0 /\ o.major = 10 /\ o.minor = 0
           THEN Some(o.build)
           ELSE None
    ELSE None

\* A support test whose threshold is one build too low.
DARK_MODE_SUPPORTED_init_off_by_one(ver) ==
  IF IsSome(ver) THEN ver.v >= 17762 ELSE FALSE

\* The closure of DARK_MODE_SUPPORTED, given the value of WIN10_BUILD_VERSION.
DARK_MODE_SUPPORTED_init(ver) ==
  IF IsSome(ver) THEN ver.v >= 17763 ELSE FALSE

\* GetProcAddress(*HUXTHEME, ordinal).map(transmute): the address is stood for
\* by the ordinal it was looked up by.
GetProcAddress(o, ordinal) ==
  IF ordinal \in o.exports THEN Some(ordinal) ELSE None

\* The closure shared by the six uxtheme entry-point statics.
UxEntry_init(o, hux, ordinal) ==
  IF is_invalid(hux) THEN None ELSE GetProcAddress(o, ordinal)

\* get_function!("user32.dll", SetWindowCompositionAttribute)
SET_WINDOW_COMPOSITION_ATTRIBUTE_init(o) ==
  IF o.swca THEN Some("SetWindowCompositionAttribute") ELSE None

\* The static a cell's initializer dereferences first, "" when none.
Dep(c) ==
  IF c \in UxCells THEN "HUXTHEME"
  ELSE IF c = "DARK_MODE_SUPPORTED" THEN "WIN10_BUILD_VERSION"
  ELSE ""

\* The value cell c's initializer computes, its dependency being Done in l.
Initializer(o, l, c) ==
  CASE c = "HUXTHEME" -> HUXTHEME_init(o)
    [] c = "WIN10_BUILD_VERSION" -> WIN10_BUILD_VERSION_init(o)
    [] c = "DARK_MODE_SUPPORTED" -> DARK_MODE_SUPPORTED_init(l["WIN10_BUILD_VERSION"].v)
    [] c = "SET_WINDOW_COMPOSITION_ATTRIBUTE" -> SET_WINDOW_COMPOSITION_ATTRIBUTE_init(o)
    [] OTHER -> UxEntry_init(o, l["HUXTHEME"].v, OrdinalOf(c))

\* Lazy::force on one thread: a cell that is Done keeps its value, another one
\* runs its initializer once (its dependency first) and stores the result.
ForceLeaf(o, l, c) ==
  IF IsDone(l[c]) THEN l ELSE [l EXCEPT ![c] = Done(Initializer(o, l, c))]

Force(o, l, c) ==
  IF IsDone(l[c]) THEN l
  ELSE LET l1 == IF Dep(c) = "" THEN l ELSE ForceLeaf(o, l, Dep(c))
       IN  [l1 EXCEPT ![c] = Done(Initializer(o, l1, c))]


(***************************************************************************)
(* Ambient OS settings in force at one evaluation of should_use_dark_mode: *)
(*   appsDark : what ShouldAppsUseDarkMode answers                         *)
(*   spiOk    : SystemParametersInfoA(SPI_GETHIGHCONTRAST) succeeds        *)
(*   hcFlags  : the dwFlags of the system's high-contrast setting          *)
(***************************************************************************)
Settings ==
  { s \in [appsDark : BOOLEAN, spiOk : BOOLEAN, hcFlags : HcFlagSamples] :
      \* a failing query is sampled with high contrast on, where it matters
      (~s.spiOk) => HCF_HIGHCONTRASTON \in {s.hcFlags, s.hcFlags - 2} }
Unqueried == [tag |-> "Unqueried"]

\* u32 bitwise and
RECURSIVE BitAnd(_, _)
BitAnd(a, b) ==
  IF a = 0 \/ b = 0 THEN 0
  ELSE (IF a % 2 = 1 /\ b % 2 = 1 THEN 1 ELSE 0) + 2 * BitAnd(a \div 2, b \div 2)

\* The high-contrast accessibility mode is on in settings s.
HighContrastOn(s) == BitAnd(HCF_HIGHCONTRASTON, s.hcFlags) # 0

(***************************************************************************)
(* The functions of the module.  Each takes the world w it runs in,        *)
(*   w.lazy    : the Lazy statics                                          *)
(*   w.allowed : the OS's dark-mode-allowed flag of each window            *)
(*   w.calls   : the OS calls made so far in this public call, in order    *)
(*   w.title   : the titlebar update this public call applied              *)
(* and yields the world after it (and [w, ret] when it returns a value).   *)
(***************************************************************************)
\* Evaluation order: "x \in {e}" binds x to the value of e, computed once, as a
\* let binding of the source does; The(S) is the element of the singleton S.
The(S) == CHOOSE x \in S : TRUE

Forced(w, c) == [w EXCEPT !.lazy = Force(os, @, c)]
Val(w, c) == w.lazy[c].v
Call(w, entry) == [w EXCEPT !.calls = Append(@, entry)]

NoTitle == [mech |-> "none", dark |-> FALSE]

should_apps_use_dark_mode(w, s) ==
  The({ LET f == Val(w1, "SHOULD_APPS_USE_DARK_MODE")
        IN  IF IsSome(f)
              THEN [w |-> Call(w1, [fn |-> "ShouldAppsUseDarkMode", via |-> f.v,
                                    ret |-> s.appsDark]),
                    ret |-> s.appsDark]
              ELSE [w |-> w1, ret |-> FALSE]
        : w1 \in {Forced(w, "SHOULD_APPS_USE_DARK_MODE")} })

\* hc.dwFlags starts as 0 and is written by a successful query only.
is_high_contrast(w, s) ==
  LET dwFlags == IF s.spiOk THEN s.hcFlags ELSE 0
  IN  [w |-> Call(w, [fn |-> "SystemParametersInfoA", ok |-> s.spiOk,
                      dwFlags |-> dwFlags]),
       ret |-> s.spiOk /\ BitAnd(HCF_HIGHCONTRASTON, dwFlags) # 0]

\* should_apps_use_dark_mode() && !is_high_contrast(), && short-circuits
should_use_dark_mode(w, s) ==
  The({ IF r1.ret
          THEN The({ [w |-> r2.w, ret |-> ~r2.ret]
                     : r2 \in {is_high_contrast(r1.w, s)} })
          ELSE [w |-> r1.w, ret |-> FALSE]
        : r1 \in {should_apps_use_dark_mode(w, s)} })

\* A resolution that follows the system setting whatever the preference is.
is_dark_mode_of_system_only(w, preferred_theme, s) ==
  should_use_dark_mode(w, s)

\* match preferred_theme { Some(theme) => theme == Theme::Dark,
\*                         None => should_use_dark_mode() }
is_dark_mode_of(w, preferred_theme, s) ==
  IF IsSome(preferred_theme)
    THEN [w |-> w, ret |-> preferred_theme.v = Dark]
    ELSE should_use_dark_mode(w, s)

\* if let Some(f) = *ALLOW_DARK_MODE_FOR_APP { f(is_dark_mode) }
AllowDarkModeForApp(w, is_dark_mode) ==
  The({ LET f == Val(w1, "ALLOW_DARK_MODE_FOR_APP")
        IN  IF IsSome(f)
              THEN Call(w1, [fn |-> "AllowDarkModeForApp", via |-> f.v,
                             arg |-> is_dark_mode])
              ELSE w1
        : w1 \in {Forced(w, "ALLOW_DARK_MODE_FOR_APP")} })

\* if let Some(f) = *SET_PREFERRED_APP_MODE { f(mode) }
SetPreferredAppMode(w, is_dark_mode) ==
  The({ LET f == Val(w1, "SET_PREFERRED_APP_MODE")
            mode == IF is_dark_mode THEN "AllowDark" ELSE "Default"
        IN  IF IsSome(f)
              THEN Call(w1, [fn |-> "SetPreferredAppMode", via |-> f.v,
                             arg |-> mode])
              ELSE w1
        : w1 \in {Forced(w, "SET_PREFERRED_APP_MODE")} })

\* A selection that still takes the legacy toggle on build 18362.
allow_dark_mode_for_app_late_switch(w, is_dark_mode) ==
  The({ LET ver == Val(w0, "WIN10_BUILD_VERSION")
        IN  IF IsSome(ver)
              THEN IF ver.v <= 18362
                     THEN AllowDarkModeForApp(w0, is_dark_mode)
                     ELSE SetPreferredAppMode(w0, is_dark_mode)
              ELSE w0
        : w0 \in {Forced(w, "WIN10_BUILD_VERSION")} })

allow_dark_mode_for_app(w, is_dark_mode) ==
  The({ LET ver == Val(w0, "WIN10_BUILD_VERSION")
        IN  IF IsSome(ver)
              THEN IF ver.v < 18362
                     THEN AllowDarkModeForApp(w0, is_dark_mode)
                     ELSE SetPreferredAppMode(w0, is_dark_mode)
              ELSE w0
        : w0 \in {Forced(w, "WIN10_BUILD_VERSION")} })

refresh_immersive_color_policy_state(w) ==
  The({ LET f == Val(w1, "REFRESH_IMMERSIVE_COLOR_POLICY_STATE")
        IN  IF IsSome(f)
              THEN Call(w1, [fn |-> "RefreshImmersiveColorPolicyState",
                             via |-> f.v])
              ELSE w1
        : w1 \in {Forced(w, "REFRESH_IMMERSIVE_COLOR_POLICY_STATE")} })

try_app_theme(w, preferred_theme, s) ==
  The({ IF Val(w0, "DARK_MODE_SUPPORTED")
          THEN The({ The({ The({ [w |-> w3, is_dark |-> r.ret,
                                  ret |-> IF r.ret THEN Dark ELSE Light]
                                 : w3 \in {refresh_immersive_color_policy_state(w2)} })
                           : w2 \in {allow_dark_mode_for_app(r.w, r.ret)} })
                     : r \in {is_dark_mode_of(w0, preferred_theme, s)} })
          ELSE [w |-> w0, is_dark |-> FALSE, ret |-> Light]
        : w0 \in {Forced(w, "DARK_MODE_SUPPORTED")} })

\* if let Some(f) = *ALLOW_DARK_MODE_FOR_WINDOW { f(hwnd, is_dark_mode) }
AllowDarkModeForWindow(w, hwnd, is_dark_mode) ==
  The({ LET f == Val(w1, "ALLOW_DARK_MODE_FOR_WINDOW")
        IN  IF IsSome(f)
              \* the OS records the flag for the window
              THEN [Call(w1, [fn |-> "AllowDarkModeForWindow", via |-> f.v,
                              hwnd |-> hwnd, arg |-> is_dark_mode])
                      EXCEPT !.allowed[hwnd] = is_dark_mode]
              ELSE w1
        : w1 \in {Forced(w, "ALLOW_DARK_MODE_FOR_WINDOW")} })

allow_dark_mode_for_window(w, hwnd, is_dark_mode) ==
  The({ IF Val(w0, "DARK_MODE_SUPPORTED")
          THEN AllowDarkModeForWindow(w0, hwnd, is_dark_mode)
          ELSE w0
        : w0 \in {Forced(w, "DARK_MODE_SUPPORTED")} })

\* A query that answers true when its entry point is missing.
is_dark_mode_allowed_for_window_default_true(w, hwnd) ==
  The({ LET f == Val(w1, "IS_DARK_MODE_ALLOWED_FOR_WINDOW")
        IN  IF IsSome(f)
              THEN [w |-> Call(w1, [fn |-> "IsDarkModeAllowedForWindow",
                                    via |-> f.v, hwnd |-> hwnd,
                                    ret |-> w1.allowed[hwnd]]),
                    ret |-> w1.allowed[hwnd]]
              ELSE [w |-> w1, ret |-> TRUE]
        : w1 \in {Forced(w, "IS_DARK_MODE_ALLOWED_FOR_WINDOW")} })

is_dark_mode_allowed_for_window(w, hwnd) ==
  The({ LET f == Val(w1, "IS_DARK_MODE_ALLOWED_FOR_WINDOW")
        IN  IF IsSome(f)
              \* the OS answers with the flag it holds for the window
              THEN [w |-> Call(w1, [fn |-> "IsDarkModeAllowedForWindow",
                                    via |-> f.v, hwnd |-> hwnd,
                                    ret |-> w1.allowed[hwnd]]),
                    ret |-> w1.allowed[hwnd]]
              ELSE [w |-> w1, ret |-> FALSE]
        : w1 \in {Forced(w, "IS_DARK_MODE_ALLOWED_FOR_WINDOW")} })

\* dark.into(): bool -> BOOL
BOOL(b) == IF b THEN 1 ELSE 0

\* SetPropW(hwnd, "UseImmersiveDarkModeColors", hData): the OS stores the handle
\* hData itself as the property; the property is a truth value, dark colours
\* for any handle but NULL.
SetPropW(w, hwnd, hData) ==
  [Call(w, [fn |-> "SetPropW", hwnd |-> hwnd,
            name |-> "UseImmersiveDarkModeColors", hData |-> hData])
     EXCEPT !.title = [mech |-> "SetPropW", dark |-> hData # 0]]

\* SetWindowCompositionAttribute(hwnd, &data): the OS reads cbData bytes at
\* pvData during the call; pointee is what pvData points to at that time.
SetWindowCompositionAttribute(w, f, hwnd, data, pointee) ==
  [Call(w, [fn |-> "SetWindowCompositionAttribute", via |-> f, hwnd |-> hwnd,
            Attrib |-> data.Attrib, pvData |-> data.pvData,
            cbData |-> data.cbData])
     EXCEPT !.title = [mech |-> "SetWindowCompositionAttribute",
                       dark |-> data.Attrib = WCA_USEDARKMODECOLORS /\ pointee # 0]]

\* A titlebar update that falls back to SetPropW when
\* SetWindowCompositionAttribute is missing.
apply_titlebar_with_fallback(w, hwnd, dark, addr) ==
  The({ LET is_dark_mode_bigbool == BOOL(dark)
            ver == Val(w0, "WIN10_BUILD_VERSION")
        IN  IF IsSome(ver)
              THEN IF ver.v < 18362
                     THEN SetPropW(w0, hwnd, addr)
                     ELSE The({ LET f == Val(w1, "SET_WINDOW_COMPOSITION_ATTRIBUTE")
                                IN  IF IsSome(f)
                                      THEN SetWindowCompositionAttribute(w1, f.v, hwnd,
                                             [Attrib |-> WCA_USEDARKMODECOLORS,
                                              pvData |-> addr, cbData |-> 4],
                                             is_dark_mode_bigbool)
                                      ELSE SetPropW(w1, hwnd, addr)
                                : w1 \in {Forced(w0, "SET_WINDOW_COMPOSITION_ATTRIBUTE")} })
              ELSE w0
        : w0 \in {Forced(w, "WIN10_BUILD_VERSION")} })

\* The second half of refresh_titlebar_theme_color: the value dark is applied
\* to hwnd; addr is where the local is_dark_mode_bigbool lives in this call.
apply_titlebar(w, hwnd, dark, addr) ==
  The({ LET is_dark_mode_bigbool == BOOL(dark)
            ver == Val(w0, "WIN10_BUILD_VERSION")
        IN  IF IsSome(ver)
              THEN IF ver.v < 18362
                     \* HANDLE(&mut is_dark_mode_bigbool as *mut _ as _): the
                     \* address of the local, not its value
                     THEN SetPropW(w0, hwnd, addr)
                     ELSE The({ LET f == Val(w1, "SET_WINDOW_COMPOSITION_ATTRIBUTE")
                                IN  IF IsSome(f)
                                      THEN SetWindowCompositionAttribute(w1, f.v, hwnd,
                                             [Attrib |-> WCA_USEDARKMODECOLORS,
                                              pvData |-> addr, cbData |-> 4],
                                             is_dark_mode_bigbool)
                                      ELSE w1
                                : w1 \in {Forced(w0, "SET_WINDOW_COMPOSITION_ATTRIBUTE")} })
              ELSE w0
        : w0 \in {Forced(w, "WIN10_BUILD_VERSION")} })

\* let dark = should_use_dark_mode() && is_dark_mode_allowed_for_window(hwnd);
\* then the titlebar update
refresh_titlebar_theme_color(w, hwnd, s, addr) ==
  The({ The({ [w |-> apply_titlebar(r2.w, hwnd, r1.ret /\ r2.ret, addr),
               should |-> r1.ret, dark |-> r1.ret /\ r2.ret]
              : r2 \in {IF r1.ret THEN is_dark_mode_allowed_for_window(r1.w, hwnd)
                                  ELSE [w |-> r1.w, ret |-> FALSE]} })
        : r1 \in {should_use_dark_mode(w, s)} })

\* Another actor of the process or the OS toggles the window's allow flag.
OtherActor(w, hwnd, toggled) ==
  IF toggled THEN [w EXCEPT !.allowed[hwnd] = ~@] ELSE w

\* s1, s2: the ambient settings at the first evaluation of should_use_dark_mode
\* and at the one of refresh_titlebar_theme_color; toggled: whether another
\* actor toggles the window's allow flag between the two calls.
try_window_theme(w, hwnd, preferred_theme, s1, toggled, s2, addr) ==
  The({ IF Val(w0, "DARK_MODE_SUPPORTED")
          THEN The({ The({ [w |-> t.w, is_dark |-> r.ret, should2 |-> t.should,
                            dark |-> t.dark,
                            ret |-> IF r.ret THEN Dark ELSE Light]
                           : t \in {refresh_titlebar_theme_color(
                                      OtherActor(
                                        allow_dark_mode_for_window(r.w, hwnd, r.ret),
                                        hwnd, toggled),
                                      hwnd, s2, addr)} })
                     : r \in {is_dark_mode_of(w0, preferred_theme, s1)} })
          ELSE [w |-> w0, is_dark |-> FALSE, should2 |-> FALSE, dark |-> FALSE,
                ret |-> Light]
        : w0 \in {Forced(w, "DARK_MODE_SUPPORTED")} })

(***************************************************************************)
(* The state machine                                                       *)
(***************************************************************************)
NoCall ==
  [op |-> "none", hwnd |-> 0, pref |-> None, s1 |-> Unqueried, s2 |-> Unqueried,
   toggled |-> FALSE, supported |-> FALSE, is_dark |-> FALSE, dark |-> FALSE,
   title |-> NoTitle, calls |-> <<>>, ret |-> Light]

Init ==
  /\ os \in OsFacts
  /\ lazy = [c \in Cells |-> Uninit]
  /\ allowed = [h \in Windows |-> FALSE]
  /\ last = NoCall
  /\ stack = [t \in Threads |-> <<>>]
  /\ runs = [c \in Cells |-> 0]
  /\ seen = [c \in Cells |-> {}]

World == [lazy |-> lazy, allowed |-> allowed, calls |-> <<>>, title |-> NoTitle]

\* The ambient settings a call with this preference is enumerated under at its
\* first evaluation: an explicit preference never reads them (is_dark_mode_of).
AmbientFor(preferred_theme) ==
  IF IsSome(preferred_theme) THEN {CHOOSE s \in Settings : TRUE} ELSE Settings

\* One call of try_app_theme(preferred_theme).
TryAppTheme ==
  /\ last.op = "none"
  /\ \E preferred_theme \in OptTheme :
       \E s \in AmbientFor(preferred_theme) :
         \E r \in {try_app_theme(World, preferred_theme, s)} :
           LET sup == Val(r.w, "DARK_MODE_SUPPORTED")
           IN  /\ lazy' = r.w.lazy
               /\ allowed' = r.w.allowed
               /\ last' = [NoCall EXCEPT
                             !.op = "try_app_theme", !.pref = preferred_theme,
                             !.s1 = IF sup /\ ~IsSome(preferred_theme)
                                      THEN s ELSE Unqueried,
                             !.supported = sup, !.is_dark = r.is_dark,
                             !.calls = r.w.calls, !.ret = r.ret]
  /\ UNCHANGED <<os, stack, runs, seen>>

\* One call of try_window_theme(hwnd, preferred_theme).
TryWindowTheme ==
  /\ last.op = "none"
  /\ \E hwnd \in Windows, preferred_theme \in OptTheme :
       \E s1 \in AmbientFor(preferred_theme), toggled \in BOOLEAN,
          s2 \in Settings, addr \in StackAddrs :
         \E r \in {try_window_theme(World, hwnd, preferred_theme, s1, toggled,
                                    s2, addr)} :
           LET sup == Val(r.w, "DARK_MODE_SUPPORTED")
           IN  /\ lazy' = r.w.lazy
               /\ allowed' = r.w.allowed
               /\ last' = [NoCall EXCEPT
                             !.op = "try_window_theme", !.hwnd = hwnd,
                             !.pref = preferred_theme,
                             !.s1 = IF sup /\ ~IsSome(preferred_theme)
                                      THEN s1 ELSE Unqueried,
                             !.s2 = IF sup THEN s2 ELSE Unqueried,
                             !.toggled = sup /\ toggled,
                             !.supported = sup, !.is_dark = r.is_dark,
                             !.dark = r.dark, !.title = r.w.title,
                             !.calls = r.w.calls, !.ret = r.ret]
  /\ UNCHANGED <<os, stack, runs, seen>>

\* The caller takes the returned theme; the next call can start.
Return ==
  /\ last.op # "none"
  /\ last' = NoCall
  /\ UNCHANGED <<os, lazy, allowed, stack, runs, seen>>

Next == TryAppTheme \/ TryWindowTheme \/ Return

Spec == Init /\ [][Next]_vars


(***************************************************************************)
(* Racing first accesses of the Lazy statics.                              *)
(*                                                                         *)
(* Each thread dereferences statics; stack[t] holds the statics whose      *)
(* initializer thread t is running, innermost last (an initializer         *)
(* dereferences the static it depends on).  runs[c] counts the completed   *)
(* runs of c's initializer, seen[c] collects every value a dereference of  *)
(* c returned to any thread.  What the OS answers to a lookup may change   *)
(* while the process runs (OsChange), so a second run of an initializer    *)
(* could compute another value than the first.                             *)
(***************************************************************************)
\* The statics raced on: a library handle, the two version statics and one
\* uxtheme entry point (the other entry-point statics have the same closure).
RaceCells == {"HUXTHEME", "WIN10_BUILD_VERSION", "DARK_MODE_SUPPORTED",
              "ALLOW_DARK_MODE_FOR_WINDOW"}

\* The answers the OS may give to the lookups while the process runs: the
\* version is fixed, the libraries and entry points may or may not resolve.
RaceOsFacts ==
  { o \in OsFacts :
      /\ o.status = 0 /\ o.major = 10 /\ o.minor = 0 /\ o.swca
      /\ o.build \in {17762, 18362}
      /\ o.exports \in {{}, Ordinals} }

\* A cell without the once guard: a thread that finds the initializer running
\* runs it too.
MayInitialize_unguarded(l, c) == ~IsDone(l[c])

\* once_cell: the thread that finds the cell incomplete runs the initializer;
\* a thread that finds it running waits, one that finds it complete reads it.
MayInitialize(l, c) == l[c] = Uninit

Top(t) == stack[t][Len(stack[t])]
Pop(t) == SubSeq(stack[t], 1, Len(stack[t]) - 1)

\* Thread t dereferences static c from outside any initializer.
Deref(t, c) ==
  /\ stack[t] = <<>>
  /\ \/ /\ IsDone(lazy[c])
        /\ seen' = [seen EXCEPT ![c] = @ \cup {lazy[c].v}]
        /\ UNCHANGED <<lazy, stack>>
     \/ /\ ~IsDone(lazy[c])
        /\ MayInitialize(lazy, c)
        /\ lazy' = [lazy EXCEPT ![c] = Running]
        /\ stack' = [stack EXCEPT ![t] = <<c>>]
        /\ UNCHANGED seen
  /\ UNCHANGED <<os, allowed, last, runs>>

\* The initializer thread t runs dereferences the static it depends on and
\* finds it not yet complete.
DerefDep(t) ==
  /\ stack[t] # <<>>
  /\ Dep(Top(t)) # ""
  /\ ~IsDone(lazy[Dep(Top(t))])
  /\ MayInitialize(lazy, Dep(Top(t)))
  /\ lazy' = [lazy EXCEPT ![Dep(Top(t))] = Running]
  /\ stack' = [stack EXCEPT ![t] = Append(@, Dep(Top(t)))]
  /\ UNCHANGED <<os, allowed, last, runs, seen>>

\* The initializer thread t runs completes: the value it computed from the
\* OS's answers of this moment is stored and returned to the dereference.
FinishInit(t) ==
  /\ stack[t] # <<>>
  /\ LET c == Top(t)
         d == Dep(c)
     IN  /\ d # "" => IsDone(lazy[d])
         /\ \E v \in {Initializer(os, lazy, c)} :
              /\ lazy' = [lazy EXCEPT ![c] = Done(v)]
              /\ seen' = [x \in Cells |->
                            IF x = c THEN seen[x] \cup {v}
                            ELSE IF x = d THEN seen[x] \cup {lazy[d].v}
                            ELSE seen[x]]
         /\ runs' = [runs EXCEPT ![c] = @ + 1]
         /\ stack' = [stack EXCEPT ![t] = Pop(t)]
  /\ UNCHANGED <<os, allowed, last>>

\* A lookup that failed would now succeed, or the other way round.
OsChange ==
  /\ \E o \in RaceOsFacts :
       /\ o # os
       /\ o.build = os.build
       /\ os' = o
  /\ UNCHANGED <<lazy, allowed, last, stack, runs, seen>>

LazyInit ==
  /\ Init
  /\ os \in RaceOsFacts

LazyNext ==
  \/ \E t \in Threads, c \in RaceCells : Deref(t, c)
  \/ \E t \in Threads : DerefDep(t)
  \/ \E t \in Threads : FinishInit(t)
  \/ OsChange

LazySpec == LazyInit /\ [][LazyNext]_vars


(***************************************************************************)
(* Properties                                                              *)
(***************************************************************************)
InCall == last.op # "none"
InAppCall == last.op = "try_app_theme"
InWindowCall == last.op = "try_window_theme"

\* The positions in the last call's log of the calls of OS function fn.
CallsOf(fn) == { i \in DOMAIN last.calls : last.calls[i].fn = fn }
Made(fn) == CallsOf(fn) # {}

\* The cached build number, once the version static is initialized.
BuildKnown == IsDone(lazy["WIN10_BUILD_VERSION"]) /\ IsSome(lazy["WIN10_BUILD_VERSION"].v)
Build == lazy["WIN10_BUILD_VERSION"].v.v

\* The OS resolves the uxtheme entry point of this ordinal.
Resolves(ordinal) == os.ux /\ ordinal \in os.exports

MutatingCalls == {"AllowDarkModeForApp", "SetPreferredAppMode",
                  "RefreshImmersiveColorPolicyState", "AllowDarkModeForWindow",
                  "SetPropW", "SetWindowCompositionAttribute"}

\* C1: when dark mode is unsupported (no Windows 10 build number was obtained,
\* or the build is below 17763), a call of try_app_theme or try_window_theme
\* returns Light for every preference and makes no OS-mutating call.
C1_UnsupportedIsLightAndInert ==
  (InCall /\ (~BuildKnown \/ Build < 17763)) =>
    /\ last.ret = Light
    /\ \A fn \in MutatingCalls : ~Made(fn)

C1_Witness ==
  /\ InWindowCall /\ last.pref = Some(Dark)
  /\ BuildKnown /\ Build = 17762
  /\ last.ret = Light

\* C2: the capability probe reports supported exactly when RtlGetVersion was
\* resolved, returned a non-negative status, and reported major 10, minor 0
\* and a build >= 17763; every other outcome is unsupported (a boolean, never
\* an error), and a build number is cached exactly when the first four hold.
C2_CapabilityProbe ==
  /\ IsDone(lazy["WIN10_BUILD_VERSION"]) =>
       lazy["WIN10_BUILD_VERSION"].v =
         IF os.rtl /\ os.status >= 0 /\ os.major = 10 /\ os.minor = 0
           THEN Some(os.build) ELSE None
  /\ IsDone(lazy["DARK_MODE_SUPPORTED"]) =>
       /\ lazy["DARK_MODE_SUPPORTED"].v \in BOOLEAN
       /\ lazy["DARK_MODE_SUPPORTED"].v <=>
            (os.rtl /\ os.status >= 0 /\ os.major = 10 /\ os.minor = 0
               /\ os.build >= 17763)
  /\ InCall => IsDone(lazy["DARK_MODE_SUPPORTED"])
                 /\ last.supported = lazy["DARK_MODE_SUPPORTED"].v

C2_Witness ==
  /\ IsDone(lazy["DARK_MODE_SUPPORTED"]) /\ lazy["DARK_MODE_SUPPORTED"].v
  /\ os.build = 17763

\* C3: when dark mode is supported, an explicit preference alone decides the
\* returned theme of both functions, whatever the ambient settings and the
\* resolved entry points are; try_app_theme then queries neither the system
\* flag nor the high-contrast setting.
C3_ExplicitPreferenceDecides ==
  (InCall /\ last.supported /\ IsSome(last.pref)) =>
    /\ last.ret = last.pref.v
    /\ InAppCall => ~Made("ShouldAppsUseDarkMode") /\ ~Made("SystemParametersInfoA")

C3_Witness ==
  /\ InWindowCall /\ last.supported /\ last.pref = Some(Dark)
  /\ ~last.s2.appsDark /\ HighContrastOn(last.s2) /\ last.s2.spiOk
  /\ last.ret = Dark

\* C4: with dark mode supported and no preference, the result is
\* Dark exactly when the apps-use-dark-mode flag is true and high contrast is
\* not active; Light whenever high contrast is active, Light whenever the
\* ShouldAppsUseDarkMode entry point is missing.
C4_DarkIffFlagAndNotHighContrast ==
  (InCall /\ last.supported /\ ~IsSome(last.pref)) =>
    (last.ret = Dark <=>
       /\ Resolves(UXTHEME_SHOULDAPPSUSEDARKMODE_ORDINAL)
       /\ last.s1.appsDark
       /\ ~HighContrastOn(last.s1))

\* What the code computes in the case of C4: a failing SystemParametersInfoA
\* query is taken as high contrast off.
C4_WithFailingQueryAsOff ==
  (InCall /\ last.supported /\ ~IsSome(last.pref)) =>
    (last.ret = Dark <=>
       /\ Resolves(UXTHEME_SHOULDAPPSUSEDARKMODE_ORDINAL)
       /\ last.s1.appsDark
       /\ ~(last.s1.spiOk /\ HighContrastOn(last.s1)))

\* The calls of the two application-level mechanisms in the last call's log.
AppModeCalls ==
  SelectSeq(last.calls,
            LAMBDA e : e.fn \in {"AllowDarkModeForApp", "SetPreferredAppMode"})

\* C5: in a supported try_app_theme call the build number alone selects the
\* application-level mechanism: below 18362 only AllowDarkModeForApp, with
\* is_dark; from 18362 on only SetPreferredAppMode, with AllowDark or Default;
\* never both, and nothing in place of a selected entry point that is missing.
C5_AppMechanismByBuild ==
  (InAppCall /\ last.supported) =>
    AppModeCalls =
      IF ~Resolves(135) THEN <<>>
      ELSE IF os.build < 18362
        THEN <<[fn |-> "AllowDarkModeForApp",
                via |-> UXTHEME_ALLOWDARKMODEFORAPP_ORDINAL,
                arg |-> (last.ret = Dark)]>>
        ELSE <<[fn |-> "SetPreferredAppMode",
                via |-> UXTHEME_SETPREFERREDAPPMODE_ORDINAL,
                arg |-> IF last.ret = Dark THEN "AllowDark" ELSE "Default"]>>

C5_Witness ==
  /\ InAppCall /\ last.supported /\ os.build = 18361
  /\ \E i \in CallsOf("AllowDarkModeForApp") : last.calls[i].arg

\* C6: in a supported try_window_theme call the build number alone selects the
\* titlebar mechanism: below 18362 one SetPropW of UseImmersiveDarkModeColors;
\* from 18362 on one SetWindowCompositionAttribute with WCA_USEDARKMODECOLORS,
\* skipped when that entry point is missing; never both.
C6_TitlebarMechanismByBuild ==
  (InWindowCall /\ last.supported) =>
    IF os.build < 18362
      THEN /\ Cardinality(CallsOf("SetPropW")) = 1
           /\ \A i \in CallsOf("SetPropW") :
                /\ last.calls[i].name = "UseImmersiveDarkModeColors"
                /\ last.calls[i].hwnd = last.hwnd
           /\ ~Made("SetWindowCompositionAttribute")
           /\ last.title.mech = "SetPropW"
      ELSE /\ ~Made("SetPropW")
           /\ Cardinality(CallsOf("SetWindowCompositionAttribute")) =
                IF os.swca THEN 1 ELSE 0
           /\ \A i \in CallsOf("SetWindowCompositionAttribute") :
                /\ last.calls[i].Attrib = 26
                /\ last.calls[i].hwnd = last.hwnd
           /\ last.title.mech =
                IF os.swca THEN "SetWindowCompositionAttribute" ELSE "none"

C6_Witness ==
  /\ InWindowCall /\ last.supported /\ os.build = 18362
  /\ Made("SetWindowCompositionAttribute")

\* What should_use_dark_mode() yields under settings s.
SystemShouldUseDark(s) ==
  /\ Resolves(UXTHEME_SHOULDAPPSUSEDARKMODE_ORDINAL)
  /\ s.appsDark
  /\ ~(s.spiOk /\ HighContrastOn(s))

\* What is_dark_mode_allowed_for_window(hwnd) yields at the re-query of the
\* last call: nothing changes the window's flag after it.
AllowedAtRequery ==
  Resolves(UXTHEME_ISDARKMODEALLOWEDFORWINDOW_ORDINAL) /\ allowed[last.hwnd]

\* C7: the titlebar darkness try_window_theme applies is
\* should_use_dark_mode() AND is_dark_mode_allowed_for_window(hwnd), both
\* re-queried after the allow call, whatever is_dark was: light whenever the
\* allow-flag query answers false.
C7_TitlebarFollowsRequery ==
  (InWindowCall /\ last.supported /\ last.title.mech # "none") =>
    (last.title.dark <=> (SystemShouldUseDark(last.s2) /\ AllowedAtRequery))

\* C7 does hold of the value the function computes, and of what it applies
\* through SetWindowCompositionAttribute.
C7_OnCompositionPath ==
  (InWindowCall /\ last.supported) =>
    /\ last.dark <=> (SystemShouldUseDark(last.s2) /\ AllowedAtRequery)
    /\ last.title.mech = "SetWindowCompositionAttribute" =>
         last.title.dark = last.dark

\* C10: the allow call precedes the re-query, so when the allow call is made
\* and nobody else toggles the flag in between, a dark titlebar is applied
\* only in calls that return Dark.
C10_DarkTitlebarOnlyIfDark ==
  (/\ InWindowCall /\ last.supported /\ ~last.toggled
   /\ Made("AllowDarkModeForWindow")) =>
    (last.title.dark => last.ret = Dark)

\* C10 does hold on the SetWindowCompositionAttribute path.
C10_OnCompositionPath ==
  (/\ InWindowCall /\ last.supported /\ ~last.toggled
   /\ Made("AllowDarkModeForWindow")
   /\ last.title.mech # "SetPropW") =>
    (last.title.dark => last.ret = Dark)

\* The uxtheme entry point each logged OS function is called through.
OrdinalOfCall(fn) ==
  CASE fn = "AllowDarkModeForApp" -> UXTHEME_ALLOWDARKMODEFORAPP_ORDINAL
    [] fn = "SetPreferredAppMode" -> UXTHEME_SETPREFERREDAPPMODE_ORDINAL
    [] fn = "RefreshImmersiveColorPolicyState" -> UXTHEME_REFRESHIMMERSIVECOLORPOLICYSTATE_ORDINAL
    [] fn = "AllowDarkModeForWindow" -> UXTHEME_ALLOWDARKMODEFORWINDOW_ORDINAL
    [] fn = "IsDarkModeAllowedForWindow" -> UXTHEME_ISDARKMODEALLOWEDFORWINDOW_ORDINAL
    [] fn = "ShouldAppsUseDarkMode" -> UXTHEME_SHOULDAPPSUSEDARKMODE_ORDINAL

UxFunctions == {"AllowDarkModeForApp", "SetPreferredAppMode",
                "RefreshImmersiveColorPolicyState", "AllowDarkModeForWindow",
                "IsDarkModeAllowedForWindow", "ShouldAppsUseDarkMode"}

\* C8: whatever subset of the dynamic entry points fails to resolve, both
\* functions can be called and return Light or Dark; a call whose entry point
\* is missing is not made, and a missing query entry point is answered false.
C8_MissingEntryPointsAreNoOps ==
  /\ ~InCall => ENABLED TryAppTheme /\ ENABLED TryWindowTheme
  /\ InCall =>
       /\ last.ret \in Theme
       /\ \A fn \in UxFunctions : Made(fn) => Resolves(OrdinalOfCall(fn))
       /\ Made("SetWindowCompositionAttribute") => os.swca
       /\ (~os.rtl) => last.ret = Light /\ last.calls = <<>>
       /\ (last.supported /\ ~Resolves(UXTHEME_SHOULDAPPSUSEDARKMODE_ORDINAL)) =>
            /\ ~IsSome(last.pref) => last.ret = Light
            /\ ~last.dark
       /\ (last.supported /\ ~Resolves(UXTHEME_ISDARKMODEALLOWEDFORWINDOW_ORDINAL)) =>
            ~last.dark

C8_Witness ==
  /\ InWindowCall /\ last.supported /\ last.pref = Some(Dark)
  /\ ~os.ux /\ ~os.swca /\ os.build = 18362
  /\ last.calls = <<>> /\ last.ret = Dark

\* C9: every Lazy static is initialized at most once per process, also under
\* racing first accesses: its initializer completes at most once, every
\* dereference by any thread returns the one cached value, the value never
\* changes once set, and a failed lookup is not retried.
C9_Once ==
  \A c \in Cells :
    /\ runs[c] <= 1
    /\ Cardinality(seen[c]) <= 1
    /\ seen[c] # {} => IsDone(lazy[c]) /\ seen[c] = {lazy[c].v}
    /\ IsDone(lazy[c]) <=> runs[c] = 1

C9_Stable == \A c \in Cells : IsDone(lazy[c]) => lazy'[c] = lazy[c]

C9_LazyInitializedOnce == []C9_Once /\ [][C9_Stable]_vars

\* A lookup failed, is cached as missing and was returned, while the OS would
\* resolve it now; another thread is inside a racing initializer.
C9_Witness ==
  /\ lazy["ALLOW_DARK_MODE_FOR_WINDOW"] = Done(None)
  /\ seen["ALLOW_DARK_MODE_FOR_WINDOW"] = {None}
  /\ Resolves(UXTHEME_ALLOWDARKMODEFORWINDOW_ORDINAL)
  /\ lazy["WIN10_BUILD_VERSION"] = Running
  /\ \E t \in Threads : stack[t] = <<"DARK_MODE_SUPPORTED", "WIN10_BUILD_VERSION">>

====
